---- MODULE Spec2Model ----
(***************************************************************************)
(* Audio File Service (FastAPI + Yandex OAuth): the request handlers of    *)
(* main.py, the OAuth dependency of oauth.py and the schema of models.py,  *)
(* as a state machine over the database rows, the storage directory and    *)
(* the requests in flight.  A handler is cut into one action per database  *)
(* or file operation it awaits, so that concurrent requests interleave     *)
(* exactly where the coroutines (or worker processes) can.                 *)
(***************************************************************************)
EXTENDS Integers, Sequences, FiniteSets, TLC

VARIABLES users, audio_files, storage, written, tokens, created,
          nextUserId, nextAudioId, pc, loc

vars == <<users, audio_files, storage, written, tokens, created,
          nextUserId, nextAudioId, pc, loc>>

(* ------------------------------ bounds --------------------------------- *)

\* largest users.id the database hands out
MaxUserId == 3

\* largest audio_files.id the database hands out
MaxAudioId == 2

\* the requests in flight at once: two, so that any two handlers interleave
Reqs == {1, 2}

(* ----------------------------- input sets ------------------------------ *)

\* Python's None for an optional string
NONE == "<None>"

\* ids the provider reports (user_info.id)
ProviderIds == {7, 8}

Emails == {NONE, "e1", "e2"}

DisplayNames == {NONE}

\* what oauth.get_user_info() resolves: one profile, or none when the exchange raises
Profiles == [id : ProviderIds, email : Emails, display_name : DisplayNames]

AnyInfo == {{}} \cup {{p} : p \in Profiles}

\* the provider answers with complete profiles of two distinct accounts
CompleteInfo == { {[id |-> 7, email |-> "e1", display_name |-> NONE]},
                  {[id |-> 8, email |-> "e2", display_name |-> NONE]} }

\* PATCH /users/me?username=
NewNames == {"m"}

\* UploadFile.filename, as characters
OrigNames == { <<"a", ".", "M", "P", "3">>,
               <<"a", ".", "t", "x", "t">> }

\* the optional filename parameter; <<>> stands for None and for ""
GivenNames == { <<>>, <<"a">> }

\* uploaded bytes
Contents == { <<1>>, <<2, 2>> }

(* ------------------------------- strings ------------------------------- *)

StrTbl == <<"1", "2", "3", "4", "5", "6", "7", "8", "9">>

\* str(n) of a positive one-digit integer
Str(n) == StrTbl[n]

\* int(s), as the token verifier reads the subject back
ParseInt(s) == CHOOSE n \in 1..Len(StrTbl) : StrTbl[n] = s

\* str.lower(), one character
LowerChar(c) == IF c = "M" THEN "m" ELSE IF c = "P" THEN "p" ELSE c

Lower(s) == [i \in 1..Len(s) |-> LowerChar(s[i])]

EndsWith(s, suf) ==
    /\ Len(suf) <= Len(s)
    /\ SubSeq(s, Len(s) - Len(suf) + 1, Len(s)) = suf

AllowedSuffixes == { <<".", "m", "p", "3">>, <<".", "w", "a", "v">>,
                     <<".", "o", "g", "g">> }

\* the check without lower()
AllowedExtensionCaseSensitive(name) == \E suf \in AllowedSuffixes : EndsWith(name, suf)

\* file.filename.lower().endswith(('.mp3', '.wav', '.ogg'))
AllowedExtension(name) == \E suf \in AllowedSuffixes : EndsWith(Lower(name), suf)

\* the largest index of character c in s, 0 when absent (str.rfind, 1-based)
RFind(s, c) ==
    LET I == {i \in 1..Len(s) : s[i] = c}
    IN  IF I = {} THEN 0 ELSE CHOOSE i \in I : \A j \in I : j <= i

\* os.path.splitext(p)[1]: from the last dot of the last path component,
\* unless only dots precede it there
SplitExt(p) ==
    LET sep == RFind(p, "/")
        dot == RFind(p, ".")
    IN  IF dot > sep /\ \E i \in (sep + 1)..(dot - 1) : p[i] # "."
        THEN SubSeq(p, dot, Len(p))
        ELSE <<>>

\* settings.AUDIO_FILES_DIR
AUDIO_FILES_DIR == <<"audio_files">>

\* os.path.join(d, name)
PathJoin(d, name) ==
    IF name # <<>> /\ name[1] = "/" THEN name
    ELSE IF d = <<>> \/ d[Len(d)] = "/" THEN d \o name
    ELSE d \o <<"/">> \o name

\* the name without the extension appended
UniqueFilenameNoExtension(orig, given) == IF given = <<>> THEN orig ELSE given

\* filename falls back to file.filename; the extension is appended
UniqueFilename(orig, given) ==
    (IF given = <<>> THEN orig ELSE given) \o SplitExt(orig)

(* ------------------------------ database ------------------------------- *)

\* a users row as the callback builds it
NewUser(id, profile) ==
    [id |-> id,
     yandex_id |-> Str(profile.id),
     email |-> profile.email,
     username |-> IF profile.display_name = NONE THEN "" ELSE profile.display_name,
     is_active |-> TRUE,
     is_superuser |-> TRUE]

\* a row provisioned outside the callback: the column defaults apply
SeedUser ==
    [id |-> 1, yandex_id |-> Str(7), email |-> "e1", username |-> "",
     is_active |-> TRUE, is_superuser |-> FALSE]

\* unique=True on users.yandex_id alone
UniqueOkYandexIdOnly(row) == \A u \in users : u.yandex_id # row.yandex_id

\* unique=True on users.yandex_id and users.email
UniqueOk(row) ==
    \A u \in users : u.yandex_id # row.yandex_id /\ u.email # row.email

\* the lookup against the wrong column, users.id
UsersByYandexIdWrongColumn(yid) == {u \in users : Str(u.id) = yid}

\* select(User).where(User.yandex_id == yid)
UsersByYandexId(yid) == {u \in users : u.yandex_id = yid}

\* select(User).where(User.id == id)
UsersById(id) == {u \in users : u.id = id}

\* the select without its where clause
AudioFilesOfAnyone(id) == audio_files

\* select(AudioFile).where(AudioFile.owner_id == id)
AudioFilesOf(id) == {a \in audio_files : a.owner_id = id}

(* -------------------------- tokens and the guard ----------------------- *)

\* create_access_token(data={"sub": str(id)}, ...): the subject it carries
AccessToken(id) == Str(id)

\* a presented credential: a minted token, or none / malformed / expired
Credentials == tokens \cup {NONE}

\* get_current_active_user: verify, load the subject's row, require active
GuardStatus(tok) ==
    IF tok = NONE THEN 401
    ELSE IF UsersById(ParseInt(tok)) = {} THEN 401
    ELSE IF \E u \in UsersById(ParseInt(tok)) : ~u.is_active THEN 400
    ELSE 200

(* ------------------------------ requests ------------------------------- *)

Idle == [kind |-> "idle"]

\* a response: the code point that produced it, the status, the body, and
\* the request parameters it answers
Response(at, status, detail, out, req) ==
    [at |-> at, status |-> status, detail |-> detail, out |-> out, req |-> req]

NoReq == [kind |-> "none"]

\* the request of slot r ends with this response
Respond(r, resp) ==
    /\ pc' = [pc EXCEPT ![r] = "done"]
    /\ loc' = [loc EXCEPT ![r] = resp]

\* slot r moves on to code point p with locals l
Goto(r, p, l) ==
    /\ pc' = [pc EXCEPT ![r] = p]
    /\ loc' = [loc EXCEPT ![r] = l]

Free(r) == pc[r] = "idle"

\* a request is taken by the first free slot (the slots are interchangeable)
Takes(r) == Free(r) /\ \A q \in Reqs : q < r => ~Free(q)

\* the response of slot r is sent and the slot is free again
Return(r) ==
    /\ pc[r] = "done"
    /\ Goto(r, "idle", Idle)
    /\ UNCHANGED <<users, audio_files, storage, written, tokens, created, nextUserId, nextAudioId>>

\* no response is waiting to be sent: a response leaves before anything else runs
NonePending == \A r \in Reqs : pc[r] # "done"

InitRest ==
    /\ audio_files = {}
    /\ storage = <<>>
    /\ written = {}
    /\ tokens = {}
    /\ created = 0
    /\ nextUserId = Cardinality(users) + 1
    /\ nextAudioId = 1
    /\ pc = [r \in Reqs |-> "idle"]
    /\ loc = [r \in Reqs |-> Idle]

\* the tables exist at startup; rows provisioned earlier are kept (create_all)
Init ==
    /\ users \in { {}, {SeedUser} }
    /\ InitRest

InitEmpty ==
    /\ users = {}
    /\ InitRest

(* ---------------------- GET /auth/yandex/callback ---------------------- *)

\* callbacks in flight that may still insert a row
CallbacksInFlight ==
    Cardinality({r \in Reqs : pc[r] \in {"cb_dep", "cb_select", "cb_commit"}})

CallbackReceive(r, maxId) ==
    /\ Takes(r)
    /\ nextUserId + CallbacksInFlight <= maxId
    /\ Goto(r, "cb_dep", [kind |-> "callback"])
    /\ UNCHANGED <<users, audio_files, storage, written, tokens, created, nextUserId, nextAudioId>>

\* get_yandex_user_info without the email check
YandexUserInfoStatusNoEmailCheck(info) == IF info = {} THEN 400 ELSE 200

\* get_yandex_user_info: 400 when the exchange raises or the email is missing
YandexUserInfoStatus(info) ==
    IF info = {} THEN 400
    ELSE IF \E p \in info : p.email = NONE \/ p.email = "" THEN 400
    ELSE 200

YandexUserInfoDetail(info) ==
    IF info = {} THEN "exchange failed" ELSE "Email not received from Yandex"

\* Depends(get_yandex_user_info): the provider's answer is one of Infos
CallbackDependency(r, Infos) ==
    /\ pc[r] = "cb_dep"
    /\ \E info \in Infos :
         IF YandexUserInfoStatus(info) # 200
         THEN Respond(r, Response("cb_dep", 400, YandexUserInfoDetail(info), {},
                                  [info |-> info]))
         ELSE Goto(r, "cb_select", [kind |-> "callback", info |-> info])
    /\ UNCHANGED <<users, audio_files, storage, written, tokens, created, nextUserId, nextAudioId>>

\* the single row of a result (scalar_one_or_none on a non-empty result)
TheOne(S) == CHOOSE x \in S : TRUE

CallbackSelect(r) ==
    /\ pc[r] = "cb_select"
    /\ LET p == TheOne(loc[r].info)
           found == UsersByYandexId(Str(p.id))
       IN  IF Cardinality(found) > 1
           THEN /\ Respond(r, Response("cb_select", 400, "MultipleResultsFound", {}, NoReq))
                /\ UNCHANGED tokens
           ELSE IF found # {}
           THEN /\ tokens' = tokens \cup {AccessToken(TheOne(found).id)}
                /\ Respond(r, Response("cb_select", 200, "bearer",
                                       {AccessToken(TheOne(found).id)}, NoReq))
           ELSE /\ Goto(r, "cb_commit", loc[r])
                /\ UNCHANGED tokens
    /\ UNCHANGED <<users, audio_files, storage, written, created, nextUserId, nextAudioId>>

CallbackCommit(r) ==
    /\ pc[r] = "cb_commit"
    /\ LET row == NewUser(nextUserId, TheOne(loc[r].info))
       IN  IF UniqueOk(row)
           THEN /\ users' = users \cup {row}
                /\ nextUserId' = nextUserId + 1
                /\ created' = created + 1
                /\ tokens' = tokens \cup {AccessToken(row.id)}
                /\ Respond(r, Response("cb_commit", 200, "bearer",
                                       {AccessToken(row.id)}, NoReq))
           ELSE /\ Respond(r, Response("cb_commit", 400, "IntegrityError", {},
                                       [info |-> loc[r].info]))
                /\ UNCHANGED <<users, nextUserId, created, tokens>>
    /\ UNCHANGED <<audio_files, storage, written, nextAudioId>>

(* ----------------------- authenticated endpoints ----------------------- *)

UserKinds == {"read_users_me", "read_user", "update_user", "delete_user", "refresh_token"}

AudioKinds == {"upload_audio", "get_audio_files", "delete_user"}

\* uploads in flight that may still insert a row
UploadsInFlight ==
    Cardinality({r \in Reqs : pc[r] \in {"upload_audio", "upload_write", "upload_commit"}})

\* a request for an authenticated endpoint arrives
Receive(r) ==
    /\ Takes(r)
    /\ Goto(r, "guard", [kind |-> "pending"])
    /\ UNCHANGED <<users, audio_files, storage, written, tokens, created, nextUserId, nextAudioId>>

GuardDetail(status) ==
    IF status = 401 THEN "Could not validate credentials" ELSE "Inactive user"

\* Depends(get_current_active_user) for a request of one of Kinds, presenting
\* any credential; on success the handler is entered with current_user
Guard(r, Kinds) ==
    /\ pc[r] = "guard"
    /\ \E kind \in Kinds : \E tok \in Credentials :
         /\ kind = "upload_audio" => nextAudioId + UploadsInFlight <= MaxAudioId
         /\ LET st == GuardStatus(tok)
            IN  IF st # 200
                THEN Respond(r, Response("guard", st, GuardDetail(st), {}, NoReq))
                ELSE Goto(r, kind, [kind |-> kind,
                                    cur |-> TheOne(UsersById(ParseInt(tok)))])
    /\ UNCHANGED <<users, audio_files, storage, written, tokens, created, nextUserId, nextAudioId>>

\* the dict the user endpoints return
Projection(u) ==
    [id |-> u.id, email |-> u.email, username |-> u.username,
     is_active |-> u.is_active, is_superuser |-> u.is_superuser]

ReadUsersMe(r) ==
    /\ pc[r] = "read_users_me"
    /\ Respond(r, Response("read_users_me", 200, "", {Projection(loc[r].cur)}, NoReq))
    /\ UNCHANGED <<users, audio_files, storage, written, tokens, created, nextUserId, nextAudioId>>

\* the lookup, then the superuser check
LookupStatusLookupFirst(cur, found) ==
    IF found = {} THEN 404
    ELSE IF ~cur.is_superuser THEN 403
    ELSE 200

\* the superuser check, then the lookup (read_user and delete_user alike)
LookupStatus(cur, found) ==
    IF ~cur.is_superuser THEN 403
    ELSE IF found = {} THEN 404
    ELSE 200

LookupDetail(status) ==
    IF status = 403 THEN "Not enough permissions" ELSE "User not found"

\* the path parameter user_id
UserIds == 1..MaxUserId

ReadUser(r) ==
    /\ pc[r] = "read_user"
    /\ \E user_id \in UserIds :
         LET found == UsersById(user_id)
             st == LookupStatus(loc[r].cur, found)
             req == [user_id |-> user_id, by |-> loc[r].cur.id]
         IN  IF st # 200
             THEN Respond(r, Response("read_user", st, LookupDetail(st), {}, req))
             ELSE Respond(r, Response("read_user", 200, "", {Projection(TheOne(found))}, req))
    /\ UNCHANGED <<users, audio_files, storage, written, tokens, created, nextUserId, nextAudioId>>

\* current_user.username = username; commit; refresh
UpdateUser(r) ==
    /\ pc[r] = "update_user"
    /\ \E username \in NewNames :
         LET rows == UsersById(loc[r].cur.id)
             req == [username |-> username]
         IN  IF rows = {}
             THEN /\ Respond(r, Response("update_user", 500, "StaleDataError", {}, req))
                  /\ UNCHANGED users
             ELSE LET new == [TheOne(rows) EXCEPT !.username = username]
                  IN  /\ users' = (users \ rows) \cup {new}
                      /\ Respond(r, Response("update_user", 200, "", {Projection(new)}, req))
    /\ UNCHANGED <<audio_files, storage, written, tokens, created, nextUserId, nextAudioId>>

DeleteUser(r) ==
    /\ pc[r] = "delete_user"
    /\ \E user_id \in UserIds :
         LET found == UsersById(user_id)
             st == LookupStatus(loc[r].cur, found)
             req == [user_id |-> user_id, by |-> loc[r].cur.id]
         IN  IF st # 200
             THEN Respond(r, Response("delete_user", st, LookupDetail(st), {}, req))
             ELSE Goto(r, "delete_commit", [user_id |-> user_id] @@ loc[r])
    /\ UNCHANGED <<users, audio_files, storage, written, tokens, created, nextUserId, nextAudioId>>

\* db.delete(user); commit: the users row goes, audio_files is not touched
DeleteUserCommit(r) ==
    /\ pc[r] = "delete_commit"
    /\ users' = users \ UsersById(loc[r].user_id)
    /\ Respond(r, Response("delete_commit", 200, "User deleted successfully", {},
                           [user_id |-> loc[r].user_id, by |-> loc[r].cur.id]))
    /\ UNCHANGED <<audio_files, storage, written, tokens, created, nextUserId, nextAudioId>>

RefreshToken(r) ==
    /\ pc[r] = "refresh_token"
    /\ tokens' = tokens \cup {AccessToken(loc[r].cur.id)}
    /\ Respond(r, Response("refresh_token", 200, "bearer",
                           {AccessToken(loc[r].cur.id)}, NoReq))
    /\ UNCHANGED <<users, audio_files, storage, written, created, nextUserId, nextAudioId>>

(* --------------------------- audio endpoints --------------------------- *)

\* the stored bytes at path p, <<>> for a file that is absent or empty
Stored(p) == IF p \in DOMAIN storage THEN storage[p] ELSE <<>>

StoreAt(p, bytes) ==
    [q \in DOMAIN storage \cup {p} |-> IF q = p THEN bytes ELSE storage[q]]

\* buffer.write(data) on a file opened "wb": the bytes land at offset 0
WriteAtStart(old, data) == data \o SubSeq(old, Len(data) + 1, Len(old))

\* the except clause swallows the error
AfterWriteSwallowed(ok) == "upload_commit"

\* where the handler goes after the write: on, or out through the except
AfterWrite(ok) == IF ok THEN "upload_commit" ELSE "raise"

\* the extension check, the derived path and open(file_path, "wb")
UploadAudio(r) ==
    /\ pc[r] = "upload_audio"
    /\ \E file \in OrigNames : \E given \in GivenNames :
         LET req == [file |-> file]
             filename == IF given = <<>> THEN file ELSE given
             path == PathJoin(AUDIO_FILES_DIR, UniqueFilename(file, given))
         IN  IF ~AllowedExtension(file)
             THEN /\ Respond(r, Response("upload_audio", 400,
                                  "Only .mp3, .wav, and .ogg files are allowed", {}, req))
                  /\ UNCHANGED storage
             ELSE \E ok \in BOOLEAN :
                    IF ok
                    THEN /\ storage' = StoreAt(path, <<>>)
                         /\ Goto(r, "upload_write",
                                 [filename |-> filename, file_path |-> path] @@ loc[r])
                    ELSE /\ Respond(r, Response("upload_audio", 500,
                                                "Failed to save file", {}, req))
                         /\ UNCHANGED storage
    /\ UNCHANGED <<users, audio_files, written, tokens, created, nextUserId, nextAudioId>>

\* buffer.write(await file.read()) and the close of the file
UploadWrite(r) ==
    /\ pc[r] = "upload_write"
    /\ \E data \in Contents : \E ok \in BOOLEAN :
         IF AfterWrite(ok) = "upload_commit"
         THEN /\ IF ok
                 THEN /\ storage' = StoreAt(loc[r].file_path,
                                       WriteAtStart(Stored(loc[r].file_path), data))
                      /\ written' = written \cup {loc[r].file_path}
                 ELSE UNCHANGED <<storage, written>>
              /\ Goto(r, "upload_commit", [data |-> data] @@ loc[r])
         ELSE /\ Respond(r, Response("upload_write", 500, "Failed to save file", {}, NoReq))
              /\ UNCHANGED <<storage, written>>
    /\ UNCHANGED <<users, audio_files, tokens, created, nextUserId, nextAudioId>>

\* the audio_files row the handler adds
NewAudioFile(id, l) ==
    [id |-> id, filename |-> l.filename, file_path |-> l.file_path, owner_id |-> l.cur.id]

UploadCommit(r) ==
    /\ pc[r] = "upload_commit"
    /\ LET row == NewAudioFile(nextAudioId, loc[r])
       IN  /\ audio_files' = audio_files \cup {row}
           /\ nextAudioId' = nextAudioId + 1
           /\ Respond(r, Response("upload_commit", 200, "", {row}, NoReq))
    /\ UNCHANGED <<users, storage, written, tokens, created, nextUserId>>

\* the dict per row that GET /audio/files returns
Listing(a) == [id |-> a.id, filename |-> a.filename, file_path |-> a.file_path]

GetAudioFiles(r) ==
    /\ pc[r] = "get_audio_files"
    /\ Respond(r, Response("get_audio_files", 200, "",
                           {Listing(a) : a \in AudioFilesOf(loc[r].cur.id)},
                           [by |-> loc[r].cur.id]))
    /\ UNCHANGED <<users, audio_files, storage, written, tokens, created, nextUserId, nextAudioId>>

(* ---------------------------- specifications --------------------------- *)

\* login and user management, with any answer of the provider
NextUsers ==
    \E r \in Reqs :
        \/ Return(r)
        \/ NonePending /\ CallbackReceive(r, MaxUserId)
        \/ NonePending /\ CallbackDependency(r, AnyInfo)
        \/ NonePending /\ CallbackSelect(r)
        \/ NonePending /\ CallbackCommit(r)
        \/ NonePending /\ Receive(r)
        \/ NonePending /\ Guard(r, UserKinds)
        \/ NonePending /\ ReadUsersMe(r)
        \/ NonePending /\ ReadUser(r)
        \/ NonePending /\ UpdateUser(r)
        \/ NonePending /\ DeleteUser(r)
        \/ NonePending /\ DeleteUserCommit(r)
        \/ NonePending /\ RefreshToken(r)

SpecUsers == Init /\ [][NextUsers]_vars

\* as many first logins as there are accounts
MaxOwnerId == Cardinality(CompleteInfo)

\* login, upload, listing and user deletion
NextAudio ==
    \E r \in Reqs :
        \/ Return(r)
        \/ NonePending /\ CallbackReceive(r, MaxOwnerId)
        \/ NonePending /\ CallbackDependency(r, CompleteInfo)
        \/ NonePending /\ CallbackSelect(r)
        \/ NonePending /\ CallbackCommit(r)
        \/ NonePending /\ Receive(r)
        \/ NonePending /\ Guard(r, AudioKinds)
        \/ NonePending /\ DeleteUser(r)
        \/ NonePending /\ DeleteUserCommit(r)
        \/ NonePending /\ UploadAudio(r)
        \/ NonePending /\ UploadWrite(r)
        \/ NonePending /\ UploadCommit(r)
        \/ NonePending /\ GetAudioFiles(r)

SpecAudio == InitEmpty /\ [][NextAudio]_vars

(* ------------------------------- claims -------------------------------- *)

\* slot r runs the code at p in this step
Runs(r, p) == pc[r] = p /\ pc'[r] # p

\* slot r answers in this step, from the code at p
Answers(r, p) == pc[r] = p /\ pc'[r] = "done"

RowsWithYandexId(U, yid) == {u \in U : u.yandex_id = yid}

\* C1: a callback that finds, at its lookup, a users row with the profile's
\* provider id adds no row: the table is unchanged, exactly one row carries
\* that provider id, and the answer is 200 with a bearer token whose subject
\* is the id of that row.
C1_RepeatedCallbackReusesUser ==
    [][\A r \in Reqs :
         (Runs(r, "cb_select")
            /\ RowsWithYandexId(users, Str(TheOne(loc[r].info).id)) # {})
         => LET E == RowsWithYandexId(users, Str(TheOne(loc[r].info).id))
            IN  /\ users' = users
                /\ Cardinality(E) = 1
                /\ pc'[r] = "done"
                /\ loc'[r].status = 200
                /\ \E u \in E : /\ loc'[r].out = {Str(u.id)}
                                /\ Str(u.id) \in tokens']_vars

C1_Witness ==
    \E r \in Reqs : /\ pc[r] = "done"
                    /\ loc[r].at = "cb_select"
                    /\ loc[r].status = 200
                    /\ \E u \in users : loc[r].out = {Str(u.id)}

\* C2: a row the callback creates is a superuser only when it is the first
\* row the callback has ever created.
C2_OnlyFirstCreationIsSuperuser ==
    [][\A r \in Reqs :
         Runs(r, "cb_commit")
         => \A u \in users' \ users : u.is_superuser => created = 0]_vars

\* C3: on GET /users/{id} and DELETE /users/{id} a caller who is not a
\* superuser is answered 403 whatever the id, with no row in the body and the
\* table unchanged; 404 is answered only to a superuser, and for an id that has
\* no row; a row leaves the table only in the commit of a superuser's DELETE,
\* and it is the row of the requested id.
C3_AuthorizationPrecedesLookup ==
    [][/\ \A r \in Reqs :
            /\ ((Runs(r, "read_user") \/ Runs(r, "delete_user"))
                  /\ ~loc[r].cur.is_superuser)
               => /\ pc'[r] = "done"
                  /\ loc'[r].status = 403
                  /\ loc'[r].out = {}
                  /\ users' = users
            /\ ((Answers(r, "read_user") \/ Answers(r, "delete_user"))
                  /\ loc'[r].status = 404)
               => /\ loc[r].cur.is_superuser
                  /\ \A u \in users : u.id # loc'[r].req.user_id
            /\ (Answers(r, "read_user") /\ loc[r].cur.is_superuser
                  /\ \E u \in users : u.id = loc'[r].req.user_id)
               => /\ loc'[r].status = 200
                  /\ \E u \in users : /\ u.id = loc'[r].req.user_id
                                      /\ loc'[r].out = {Projection(u)}
            /\ Runs(r, "delete_commit")
               => /\ loc[r].cur.is_superuser
                  /\ users' = {u \in users : u.id # loc[r].user_id}
       /\ ({u.id : u \in users} \ {u.id : u \in users'} # {}
             => \E r \in Reqs : Runs(r, "delete_commit") /\ loc[r].cur.is_superuser)]_vars

C3_Witness ==
    \E r \in Reqs : /\ pc[r] = "done"
                    /\ loc[r].at = "delete_user"
                    /\ loc[r].status = 403
                    /\ loc[r].req.user_id = loc[r].req.by
                    /\ \E u \in users : u.id = loc[r].req.user_id

\* the profile the provider answered to slot r in this step
AnsweredInfo(r) == IF pc'[r] = "done" THEN loc'[r].req.info ELSE loc'[r].info

\* C4: a callback whose profile has no email is answered 400 with no token,
\* and the users table and the minted tokens are unchanged; no row without an
\* email is ever stored.
C4_NoEmailNoUser ==
    /\ [](\A u \in users : u.email # NONE /\ u.email # "")
    /\ [][\A r \in Reqs :
            (Runs(r, "cb_dep") /\ \E p \in AnsweredInfo(r) : p.email = NONE)
            => /\ pc'[r] = "done"
               /\ loc'[r].status = 400
               /\ loc'[r].out = {}
               /\ users' = users
               /\ tokens' = tokens]_vars

C4_Witness ==
    \E r \in Reqs : /\ pc[r] = "done"
                    /\ loc[r].at = "cb_dep"
                    /\ loc[r].status = 400
                    /\ \E p \in loc[r].req.info : p.email = NONE

\* C5: no two users rows share a provider id, an email or an id; a callback
\* whose insert would break that is answered 400 and adds no row.
C5_UniqueProviderIdAndEmail ==
    /\ [](\A u, v \in users :
            (u.yandex_id = v.yandex_id \/ u.email = v.email \/ u.id = v.id) => u = v)
    /\ [][\A r \in Reqs :
            (Runs(r, "cb_commit")
               /\ \E u \in users : \/ u.yandex_id = Str(TheOne(loc[r].info).id)
                                   \/ u.email = TheOne(loc[r].info).email)
            => /\ pc'[r] = "done"
               /\ loc'[r].status = 400
               /\ loc'[r].out = {}
               /\ users' = users]_vars

C5_Witness ==
    \E r \in Reqs : /\ pc[r] = "done"
                    /\ loc[r].at = "cb_commit"
                    /\ loc[r].status = 400
                    /\ \E u \in users : u.yandex_id = Str(TheOne(loc[r].req.info).id)

\* the uploaded names whose ending is none of .mp3, .wav, .ogg in any case
NotAudioNames == { <<"a", ".", "t", "x", "t">> }

UploadPoints == {"upload_audio", "upload_write", "upload_commit"}

\* the upload of slot r adds exactly one row in this step, owned by its caller
AddsOwnRow(r) ==
    \E row \in audio_files' :
        /\ row \notin audio_files
        /\ audio_files' = audio_files \cup {row}
        /\ row.owner_id = loc[r].cur.id
        /\ \A a \in audio_files : a.id # row.id
        /\ loc'[r].out = {row}

\* a name outside the allow-list is answered 400, with no row and no file
RejectsOtherNames(r) ==
    (Answers(r, "upload_audio") /\ loc'[r].req.file \in NotAudioNames)
    => /\ loc'[r].status = 400
       /\ audio_files' = audio_files
       /\ storage' = storage

\* C6 as stated: an upload is answered 400, with no row and no file, when the
\* name is outside the allow-list, and otherwise it is answered 200 and adds
\* exactly one row, owned by the caller.
C6_AllowedNameAlwaysSucceeds ==
    [][\A r \in Reqs :
         /\ RejectsOtherNames(r)
         /\ (\E p \in UploadPoints : Answers(r, p))
            => \/ Answers(r, "upload_audio") /\ loc'[r].req.file \in NotAudioNames
               \/ loc'[r].status = 200 /\ AddsOwnRow(r)]_vars

\* C6 amended: a name outside the allow-list is answered 400 with no row and
\* no file; a name inside it is never answered 400: the request is answered 500
\* with no row when opening or writing the file fails, and once the write has
\* succeeded it is answered 200 and adds exactly one row, owned by the caller.
C6_AllowedNameSucceedsIfWritten ==
    [][\A r \in Reqs :
         /\ RejectsOtherNames(r)
         /\ (Runs(r, "upload_audio") /\ pc'[r] = "done"
               /\ loc'[r].req.file \notin NotAudioNames)
            => loc'[r].status = 500 /\ audio_files' = audio_files
         /\ (Runs(r, "upload_audio") /\ pc'[r] = "done" /\ loc'[r].status = 400)
            => loc'[r].req.file \in NotAudioNames
         /\ Answers(r, "upload_write")
            => /\ loc'[r].status = 500
               /\ audio_files' = audio_files
               /\ storage' = storage
         /\ Runs(r, "upload_commit")
            => /\ pc'[r] = "done"
               /\ loc'[r].status = 200
               /\ AddsOwnRow(r)]_vars

C6_Witness ==
    \E r \in Reqs : /\ pc[r] = "done"
                    /\ loc[r].at = "upload_commit"
                    /\ loc[r].status = 200
                    /\ loc[r].out \subseteq audio_files
                    /\ Cardinality(audio_files) = 1

\* C7: GET /audio/files answers 200 with exactly the rows whose owner_id is
\* the caller's id.
C7_ListingIsOwnRows ==
    [][\A r \in Reqs :
         Runs(r, "get_audio_files")
         => /\ pc'[r] = "done"
            /\ loc'[r].status = 200
            /\ loc'[r].out =
                 {[id |-> a.id, filename |-> a.filename, file_path |-> a.file_path] :
                    a \in {b \in audio_files : b.owner_id = loc[r].cur.id}}]_vars

C7_Witness ==
    \E r \in Reqs : /\ pc[r] = "done"
                    /\ loc[r].at = "get_audio_files"
                    /\ loc[r].out # {}
                    /\ \E a \in audio_files : a.owner_id # loc[r].req.by
                    /\ \E a \in audio_files : a.owner_id = loc[r].req.by

\* C8: an upload whose write fails is answered 500 and leaves audio_files
\* unchanged; a row is added only by an upload whose write has completed, so
\* every row's file_path has been written.
C8_WritePrecedesRecord ==
    /\ [](\A a \in audio_files : a.file_path \in written)
    /\ [][/\ \A r \in Reqs :
               /\ Runs(r, "upload_write")
                  => \/ /\ pc'[r] = "upload_commit"
                        /\ loc[r].file_path \in written'
                     \/ /\ pc'[r] = "done"
                        /\ loc'[r].status = 500
                        /\ audio_files' = audio_files
               /\ Runs(r, "upload_audio") => audio_files' = audio_files
          /\ (audio_files' # audio_files
                => \E r \in Reqs : /\ Runs(r, "upload_commit")
                                   /\ loc[r].file_path \in written)]_vars

C8_Witness ==
    \E r \in Reqs : /\ pc[r] = "done"
                    /\ loc[r].at = "upload_write"
                    /\ loc[r].status = 500

\* C9: the owner_id of a row references a users row that exists when the row
\* is committed.
C9_OwnerExistsAtCommit ==
    [][\A r \in Reqs :
         Runs(r, "upload_commit")
         => \A a \in audio_files' \ audio_files : \E u \in users : u.id = a.owner_id]_vars

\* the stored name: the given name, or else the original one, then the
\* extension of the original one, under the storage directory
NamedAsGiven(r) ==
    (Runs(r, "upload_audio") /\ pc'[r] = "upload_write")
    => /\ loc'[r].filename \in { <<"a">>, <<"a", ".", "M", "P", "3">> }
       /\ loc'[r].file_path =
            <<"audio_files", "/">> \o loc'[r].filename \o <<".", "M", "P", "3">>

\* no uniqueness check: the commit adds a row whatever rows hold the path
CommitsWhateverThePath(r) ==
    Runs(r, "upload_commit")
    => /\ pc'[r] = "done"
       /\ loc'[r].status = 200
       /\ \E row \in audio_files' \ audio_files : row.file_path = loc[r].file_path

\* C10 as stated: the stored name is the given or original name plus the
\* original extension; an upload to a path other rows hold succeeds and adds
\* its row; after a write the stored content is the writer's bytes only.
C10_LastWriterOnly ==
    [][\A r \in Reqs :
         /\ NamedAsGiven(r)
         /\ CommitsWhateverThePath(r)
         /\ (Runs(r, "upload_write") /\ pc'[r] = "upload_commit")
            => storage'[loc[r].file_path] = loc'[r].data]_vars

IsPrefix(s, t) == Len(s) <= Len(t) /\ SubSeq(t, 1, Len(s)) = s

\* C10 amended: as stated, except that after a write the stored content
\* begins with the writer's bytes, and is the writer's bytes only when no
\* longer content was written there since the writer opened the file.
C10_LastWriterFirst ==
    [][\A r \in Reqs :
         /\ NamedAsGiven(r)
         /\ CommitsWhateverThePath(r)
         /\ (Runs(r, "upload_write") /\ pc'[r] = "upload_commit")
            => /\ IsPrefix(loc'[r].data, storage'[loc[r].file_path])
               /\ Len(storage[loc[r].file_path]) <= Len(loc'[r].data)
                  => storage'[loc[r].file_path] = loc'[r].data]_vars

C10_Witness ==
    \E a, b \in audio_files :
        /\ a.id # b.id
        /\ a.file_path = b.file_path
        /\ a.file_path \in DOMAIN storage
        /\ storage[a.file_path] = <<1, 2>>

====
